---- MODULE Spec2Model ----
(***************************************************************************)
(* Reward signer (wadedesirco/signer): the paginated GraphQL collector,    *)
(* the signing retry loop, the worker client's operations and its          *)
(* checksum-gated config fetch, the reward composition sums, the wallet    *)
(* selection, the start-up sequence of main and its run loop, and the      *)
(* equality, ordering and typed-data signing of reward entries.            *)
(*                                                                         *)
(* Texts (the string-encoded fields of raw rows) are sequences of          *)
(* one-character strings.  A Result is a record with a tag "Ok" or "Err".  *)
(***************************************************************************)
EXTENDS Integers, Sequences, FiniteSets, TLC

VARIABLES
    \* ---- GraphqlClient::get_entries_in_batches (graphql.rs) ----
    gq_pc,        \* "idle" | "loop" | "request" | "done"
    service,      \* the query service's table: [total, bad_pos, bad_kind]
    query,        \* the GraphQueryVariables of the request being built/sent
    entries,      \* the Vec<T> accumulated so far
    ind_retry,    \* failed attempts of the current page
    batch_size,   \* length of the last page received
    requests,     \* page requests sent (try_get_batch calls)
    batches,      \* successful responses received
    failures,     \* failed responses received
    gq_result,    \* the Result<Vec<T>> returned, None before the return
    \* ---- sign_rewards (main.rs) ----
    sign_pc,          \* "idle" | "next" | "call" | "sleep" | "done"
    reward_entries,   \* the Vec<RewardEntry> passed in
    sign_args,        \* the other arguments: signer, chain_id, contract_name,
                      \* contract_address
    sign_idx,         \* position of the entry being signed (0 before the first)
    signed_entries,   \* the Vec<SignedRewardEntry> built so far
    failed_attempts,  \* failed sign_typed_data calls for the current entry
    attempts,         \* sign_typed_data calls made for the current entry
    elapsed,          \* seconds slept since the current entry's last call
    sign_result,      \* the Result<Vec<SignedRewardEntry>> returned
    \* ---- main and run_once (main.rs) ----
    main_pc,          \* "off" | "chain_id" | "wallet" | "config" | "loop" |
                      \* "run_once" | "sleep" | "exit"
    cli,              \* the parsed command line (Cli)
    env,              \* what the JSON-RPC node, AWS KMS and the worker answer
    chain_id,         \* main's chain_id
    signer,           \* main's signer: the Result of Wallet::from_source
    config,           \* the Result of get_reward_config_checked
    run_context,      \* the RunContext, None before it is built
    config_requests,  \* GET admin/rewardConfig requests sent
    config_parses,    \* serde_json::from_str calls on a reward config body
    iterations,       \* run_once calls started
    run_errors,       \* run_once calls that returned an error (logged)
    run_result,       \* the Result of the last run_once, None before the first
    calls,            \* the operations the current run_once has called, in order
    sleeps,           \* std::thread::sleep calls of main's loop that returned
    \* ---- WorkerClient (worker.rs) ----
    wk_pc,            \* "idle" | "send" | "done"
    wk_call,          \* the operation called and its argument
    wk_requests,      \* the HTTP requests the call has sent
    wk_response,      \* what came back for the last request
    wk_log,           \* the debug! lines the call has written
    wk_result,        \* the Result returned
    \* ---- RewardComposition (worker.rs) ----
    comp_pc,          \* "idle" | "called" | "done"
    composition,      \* the RewardComposition the method is called on
    comp_fn,          \* the method called
    comp_outcome,     \* what the call did: a value returned, or a panic
    \* ---- comparisons and signatures of two values (main.rs) ----
    pair_pc,          \* "idle" | "called" | "done"
    pair_op,          \* the operation applied to the two
    pair_left,        \* the first value
    pair_right,       \* the second value
    pair_out          \* what the operation gave

collect_vars ==
    <<gq_pc, service, query, entries, ind_retry, batch_size, requests, batches,
      failures, gq_result>>

sign_vars ==
    <<sign_pc, reward_entries, sign_args, sign_idx, signed_entries, failed_attempts,
      attempts, elapsed, sign_result>>

main_vars ==
    <<main_pc, cli, env, chain_id, signer, config, run_context, config_requests,
      config_parses, iterations, run_errors, run_result, calls, sleeps>>

worker_vars == <<wk_pc, wk_call, wk_requests, wk_response, wk_log, wk_result>>

comp_vars == <<comp_pc, composition, comp_fn, comp_outcome>>

pair_vars == <<pair_pc, pair_op, pair_left, pair_right, pair_out>>

vars == <<collect_vars, sign_vars, main_vars, worker_vars, comp_vars, pair_vars>>

None == [tag |-> "None"]
Ok(v) == [tag |-> "Ok", value |-> v]
Err(e) == [tag |-> "Err", error |-> e]
Some(v) == [tag |-> "Some", value |-> v]

\* sign_rewards not called.
SignIdle ==
    /\ sign_pc = "idle"
    /\ reward_entries = <<>>
    /\ sign_args = None
    /\ sign_idx = 0
    /\ signed_entries = <<>>
    /\ failed_attempts = 0
    /\ attempts = 0
    /\ elapsed = 0
    /\ sign_result = None

\* No process started.
MainOff ==
    /\ main_pc = "off"
    /\ cli = None
    /\ env = None
    /\ chain_id = None
    /\ signer = None
    /\ config = None
    /\ run_context = None
    /\ config_requests = 0
    /\ config_parses = 0
    /\ iterations = 0
    /\ run_errors = 0
    /\ run_result = None
    /\ calls = <<>>
    /\ sleeps = 0

\* No WorkerClient call made.
WorkerIdle ==
    /\ wk_pc = "idle"
    /\ wk_call = None
    /\ wk_requests = <<>>
    /\ wk_response = None
    /\ wk_log = <<>>
    /\ wk_result = None

\* No RewardComposition method called.
CompIdle ==
    /\ comp_pc = "idle"
    /\ composition = None
    /\ comp_fn = "none"
    /\ comp_outcome = None

\* No pair of values handed over.
PairIdle ==
    /\ pair_pc = "idle"
    /\ pair_op = "none"
    /\ pair_left = None
    /\ pair_right = None
    /\ pair_out = None

(***************************************************************************)
(* Bounds of the model.                                                    *)
(***************************************************************************)
\* The service holds at most MaxPages full pages of rows.
MaxPages == 2

(***************************************************************************)
(* Program constants.                                                      *)
(***************************************************************************)
QUERY_ENTRY_COUNT == 1000
GRAPHQL_RETRY_COUNT == 5
\* The block the client is anchored to (GraphqlClient::new's anchor_block).
AnchorBlock == 17

(***************************************************************************)
(* Texts and their parsers.                                                *)
(***************************************************************************)
Digits == <<"0", "1", "2", "3", "4", "5", "6", "7", "8", "9">>
DigitChars == {Digits[i] : i \in 1..10}
DigitValue == [c \in DigitChars |-> (CHOOSE i \in 1..10 : Digits[i] = c) - 1]
HexChars == DigitChars \cup {"a", "b", "c", "d", "e", "f", "A", "B", "C", "D", "E", "F"}

RECURSIVE DecStr(_)
\* The decimal text of a natural number, as the query service writes it.
DecStr(n) == IF n < 10 THEN <<Digits[n + 1]>> ELSE DecStr(n \div 10) \o <<Digits[(n % 10) + 1]>>

RECURSIVE DigitsValueUpTo(_, _)
DigitsValueUpTo(s, n) ==
    IF n = 0 THEN 0 ELSE 10 * DigitsValueUpTo(s, n - 1) + DigitValue[s[n]]
DigitsValue(s) == DigitsValueUpTo(s, Len(s))

RECURSIVE StripZeros(_)
StripZeros(s) == IF Len(s) > 1 /\ s[1] = "0" THEN StripZeros(Tail(s)) ELSE s

\* A decimal text of more than U64_DIGITS (U256_DIGITS) significant digits is
\* above u64::MAX (U256::MAX).  The rows of the model hold no number that
\* close to the limit: their numbers have a few digits or far too many.
U64_DIGITS == 20
U256_DIGITS == 78

\* str::parse::<u64>: an optional "+", then at least one decimal digit;
\* fails on the empty text, on any other character and on overflow.
ParseU64(s) ==
    LET body == IF s # <<>> /\ s[1] = "+" THEN Tail(s) ELSE s IN
    IF body = <<>> THEN Err("empty")
    ELSE IF \E i \in 1..Len(body) : body[i] \notin DigitChars THEN Err("invalid digit")
    ELSE IF Len(StripZeros(body)) > U64_DIGITS THEN Err("overflow")
    ELSE Ok(DigitsValue(body))

\* U256::from_dec_str: decimal digits only (the empty text is 0); fails on
\* any other character and on overflow.  A U256 is kept as its decimal digits
\* without leading zeros: it does not fit the model checker's integers.
FromDecStr(s) ==
    IF \E i \in 1..Len(s) : s[i] \notin DigitChars THEN Err("invalid character")
    ELSE IF Len(StripZeros(s)) > U256_DIGITS THEN Err("invalid length")
    ELSE Ok(IF s = <<>> THEN <<"0">> ELSE StripZeros(s))

LowerHex ==
    [c \in HexChars |->
        CASE c = "A" -> "a" [] c = "B" -> "b" [] c = "C" -> "c"
          [] c = "D" -> "d" [] c = "E" -> "e" [] c = "F" -> "f" [] OTHER -> c]

HexValue ==
    [c \in HexChars |->
        IF c \in DigitChars THEN DigitValue[c]
        ELSE CASE LowerHex[c] = "a" -> 10 [] LowerHex[c] = "b" -> 11
               [] LowerHex[c] = "c" -> 12 [] LowerHex[c] = "d" -> 13
               [] LowerHex[c] = "e" -> 14 [] LowerHex[c] = "f" -> 15]

\* The 20 bytes of an address, as ten 16-bit words.
AddressWords(body) ==
    [w \in 1..10 |->
        4096 * HexValue[body[4 * w - 3]] + 256 * HexValue[body[4 * w - 2]]
            + 16 * HexValue[body[4 * w - 1]] + HexValue[body[4 * w]]]

\* Address::from_str: an optional "0x", then exactly 40 hexadecimal digits;
\* the address is the 20 bytes they spell, whatever the case of the letters.
ParseAddress(s) ==
    LET body == IF Len(s) >= 2 /\ s[1] = "0" /\ s[2] = "x" THEN SubSeq(s, 3, Len(s)) ELSE s IN
    IF Len(body) # 40 THEN Err("invalid length")
    ELSE IF \E i \in 1..40 : body[i] \notin HexChars THEN Err("invalid character")
    ELSE Ok(AddressWords(body))

(***************************************************************************)
(* TryFrom<RawDebtEntry> for DebtEntry.                                    *)
(***************************************************************************)
TryFromRawDebtEntry(value) ==
    LET index == ParseU64(value.index)
        address == ParseAddress(value.address)
        debt_factor == FromDecStr(value.debt_factor)
        debt_proportion == FromDecStr(value.debt_proportion)
        timestamp == ParseU64(value.timestamp)
    IN  IF index.tag = "Err" THEN index
        ELSE IF address.tag = "Err" THEN address
        ELSE IF debt_factor.tag = "Err" THEN debt_factor
        ELSE IF debt_proportion.tag = "Err" THEN debt_proportion
        ELSE IF timestamp.tag = "Err" THEN timestamp
        ELSE Ok([id |-> value.id,
                 index |-> index.value,
                 address |-> address.value,
                 debt_factor |-> debt_factor.value,
                 debt_proportion |-> debt_proportion.value,
                 timestamp |-> timestamp.value])

(***************************************************************************)
(* The query service: a table of `total` raw rows in a fixed order, served *)
(* in pages (rows skip+1 .. skip+first).  Row bad_pos, when not 0, is      *)
(* malformed in the field bad_kind names.                                  *)
(***************************************************************************)
AddressText ==
    <<"0", "x", "7", "4", "2", "d", "3", "5", "C", "c", "6", "6", "3", "4",
      "C", "0", "5", "3", "2", "9", "2", "5", "a", "3", "b", "8", "4", "4",
      "B", "c", "4", "5", "4", "e", "4", "4", "3", "8", "f", "4", "4", "e">>

BadKinds == {"index", "address", "debt_factor"}

GoodRow(i) ==
    [id |-> <<"r">> \o DecStr(i),
     index |-> DecStr(i),
     address |-> AddressText,
     debt_factor |-> DecStr(i % 7),
     debt_proportion |-> <<"0", "5">>,
     timestamp |-> <<"+">> \o DecStr(10 + i)]

MalformedRow(i, kind) ==
    CASE kind = "index" -> [GoodRow(i) EXCEPT !.index = <<"1", "x">>]
      [] kind = "address" -> [GoodRow(i) EXCEPT !.address = Tail(AddressText)]
      [] kind = "debt_factor" -> [GoodRow(i) EXCEPT !.debt_factor = <<"-", "1">>]

MaxRows == MaxPages * QUERY_ENTRY_COUNT
GoodRows == [i \in 1..MaxRows |-> GoodRow(i)]
ServiceRow(svc, i) ==
    IF i = svc.bad_pos THEN MalformedRow(i, svc.bad_kind) ELSE GoodRows[i]

Min(a, b) == IF a < b THEN a ELSE b

\* The page the service answers a request with.
ServicePage(svc, variables) ==
    LET n == IF variables.skip >= svc.total THEN 0
             ELSE Min(variables.first, svc.total - variables.skip)
    IN  <<>> \o [i \in 1..n |-> ServiceRow(svc, variables.skip + i)]

Totals ==
    {0, 1} \cup {k * QUERY_ENTRY_COUNT - d : k \in 1..MaxPages, d \in {0, 1}}

Services ==
    {[total |-> t, bad_pos |-> 0, bad_kind |-> "none"] : t \in Totals}
        \cup {[total |-> t, bad_pos |-> 1, bad_kind |-> k] : t \in Totals \ {0}, k \in BadKinds}
        \cup {[total |-> t, bad_pos |-> t, bad_kind |-> "index"] : t \in Totals \ {0, 1}}

(***************************************************************************)
(* GraphqlClient::get_entries_in_batches.                                  *)
(***************************************************************************)
\* Variant: the offset is one past the accumulated count.
GraphQueryVariables_SkipOffByOne(accumulated) ==
    [block |-> AnchorBlock, first |-> QUERY_ENTRY_COUNT, skip |-> Len(accumulated) + 1]

\* Variant: every page is asked for from the start.
GraphQueryVariables_NoSkip(accumulated) ==
    [block |-> AnchorBlock, first |-> QUERY_ENTRY_COUNT, skip |-> 0]

\* The request of the next page (graphql.rs 200-207).
GraphQueryVariables(accumulated) ==
    [block |-> AnchorBlock, first |-> QUERY_ENTRY_COUNT, skip |-> Len(accumulated)]

\* Variant: `>=` for `>`.
RetriesExhausted_AtCeiling(n) == n >= GRAPHQL_RETRY_COUNT

\* `if ind_retry > GRAPHQL_RETRY_COUNT` (graphql.rs 219).
RetriesExhausted(n) == n > GRAPHQL_RETRY_COUNT

\* Variant: `<=` for `<`.
IsLastBatch_Inclusive(n) == n <= QUERY_ENTRY_COUNT

\* `if batch_size < QUERY_ENTRY_COUNT { break; }` (graphql.rs 241).
IsLastBatch(n) == n < QUERY_ENTRY_COUNT

\* Variant: rows that fail conversion are dropped (filter_map).
ConvertBatch_SkipMalformed(rows) ==
    LET conv == <<>> \o [i \in 1..Len(rows) |-> TryFromRawDebtEntry(rows[i])] IN
    Ok([i \in 1..Len(conv) |-> IF conv[i].tag = "Err" THEN None ELSE conv[i].value])

\* `.map(|item| item.try_into()...).collect::<Result<Vec<_>>>()`: the typed
\* entries of a page, or the error of the first row that fails conversion.
ConvertBatch(rows) ==
    LET conv == <<>> \o [i \in 1..Len(rows) |-> TryFromRawDebtEntry(rows[i])] IN
    IF \E i \in 1..Len(conv) : conv[i].tag = "Err"
    THEN Err("error parsing raw result")
    ELSE Ok([i \in 1..Len(conv) |-> conv[i].value])

RetryError == Err("GraphQL request still failed after retries")

\* The collector before a call, against the service svc.
CollectIdle(svc) ==
    /\ gq_pc = "idle"
    /\ service = svc
    /\ query = GraphQueryVariables(<<>>)
    /\ entries = <<>>
    /\ ind_retry = 0
    /\ batch_size = 0
    /\ requests = 0
    /\ batches = 0
    /\ failures = 0
    /\ gq_result = None

\* The call: `let mut entries = vec![];`
GetEntriesInBatches ==
    /\ gq_pc = "idle"
    /\ gq_pc' = "loop"
    /\ entries' = <<>>
    /\ UNCHANGED <<service, query, ind_retry, batch_size, requests, batches,
                   failures, gq_result>>
    /\ UNCHANGED <<sign_vars, main_vars, worker_vars, comp_vars, pair_vars>>

\* Variant: the counter is declared outside the outer loop and goes on
\* counting from page to page.
RetryCounterAtPage_Carried(n) == n

\* `let mut ind_retry = 0;` inside the outer loop (graphql.rs 209).
RetryCounterAtPage(n) == 0

\* Top of the outer loop: build the page's request, reset the retry counter.
BuildQuery ==
    /\ gq_pc = "loop"
    /\ query' = GraphQueryVariables(entries)
    /\ ind_retry' = RetryCounterAtPage(ind_retry)
    /\ gq_pc' = "request"
    /\ UNCHANGED <<service, entries, batch_size, requests, batches, failures,
                   gq_result>>
    /\ UNCHANGED <<sign_vars, main_vars, worker_vars, comp_vars, pair_vars>>

\* try_get_batch answers Ok: convert the page, append it, stop on a short page.
TryGetBatchOk ==
    /\ gq_pc = "request"
    /\ LET rows == ServicePage(service, query)
           converted == ConvertBatch(rows)
       IN  /\ requests' = requests + 1
           /\ batches' = batches + 1
           /\ batch_size' = Len(rows)
           /\ IF converted.tag = "Err"
              THEN /\ gq_pc' = "done"
                   /\ gq_result' = converted
                   /\ UNCHANGED entries
              ELSE /\ entries' = entries \o converted.value
                   /\ IF IsLastBatch(Len(rows))
                      THEN /\ gq_pc' = "done"
                           /\ gq_result' = Ok(entries')
                      ELSE /\ gq_pc' = "loop"
                           /\ UNCHANGED gq_result
    /\ UNCHANGED <<service, query, ind_retry, failures>>
    /\ UNCHANGED <<sign_vars, main_vars, worker_vars, comp_vars, pair_vars>>

\* try_get_batch answers Err (transport error, timeout, undecodable body or
\* a GraphQL error response): count it, give up past the ceiling.
TryGetBatchErr ==
    /\ gq_pc = "request"
    /\ requests' = requests + 1
    /\ failures' = failures + 1
    /\ ind_retry' = ind_retry + 1
    /\ IF RetriesExhausted(ind_retry')
       THEN /\ gq_pc' = "done"
            /\ gq_result' = RetryError
       ELSE UNCHANGED <<gq_pc, gq_result>>
    /\ UNCHANGED <<service, query, entries, batch_size, batches>>
    /\ UNCHANGED <<sign_vars, main_vars, worker_vars, comp_vars, pair_vars>>

CollectInit ==
    /\ \E svc \in Services : CollectIdle(svc)
    /\ SignIdle
    /\ MainOff
    /\ WorkerIdle
    /\ CompIdle
    /\ PairIdle

CollectNext ==
    \/ GetEntriesInBatches
    \/ BuildQuery
    \/ TryGetBatchOk
    \/ TryGetBatchErr

CollectSpec == CollectInit /\ [][CollectNext]_vars

(***************************************************************************)
(* Wallets, EIP-712 typed data and sign_rewards.                           *)
(***************************************************************************)
\* Bounds: the entries of a batch handed to sign_rewards.
MaxEntries == 2

\* The failures after which signing gives up (main.rs 444) and the seconds
\* slept before a retry (main.rs 452).
SIGN_MAX_ATTEMPTS == 10
SIGN_RETRY_DELAY == 10

\* The recipient run_once writes (main.rs 356-357): the bytes the 40
\* hexadecimal digits after "0x" spell.
RunOnceRecipient == AddressWords(SubSeq(AddressText, 3, 42))
OtherRecipient == [w \in 1..10 |-> w]
SignerAddress == [w \in 1..10 |-> 100 + w]
RewardSystemAddress == [w \in 1..10 |-> 200 + w]

\* U256::from_dec_str("100000000000000000").unwrap() (main.rs 362-363).
RunOnceReward ==
    FromDecStr(<<"1", "0", "0", "0", "0", "0", "0", "0", "0", "0", "0", "0", "0",
                 "0", "0", "0", "0", "0">>).value

RewardEntry(chain, period, recipient, staking, fee) ==
    [chain_id |-> chain, period_id |-> period, recipient |-> recipient,
     staking_reward |-> staking, fee_reward |-> fee]

\* Eip712RewardEntry::domain (main.rs 399-407).
Eip712Domain(chain, contract_name, contract_address) ==
    [name |-> contract_name, version |-> "1", chain_id |-> chain,
     verifying_contract |-> contract_address]

\* Variant: the fee reward is left out of the encoding.
Eip712StructHash_NoFee(inner) ==
    <<"Reward(uint256 periodId,address recipient,uint256 stakingReward,uint256 feeReward)",
      inner.period_id, inner.recipient, inner.staking_reward>>

\* Eip712RewardEntry::struct_hash (main.rs 415-423); keccak256 of an encoding
\* is kept as the tuple of the encoded values.
Eip712StructHash(inner) ==
    <<"Reward(uint256 periodId,address recipient,uint256 stakingReward,uint256 feeReward)",
      inner.period_id, inner.recipient, inner.staking_reward, inner.fee_reward>>

\* What the signer is handed: the payload's domain separator and struct hash.
Eip712Digest(inner, chain, contract_name, contract_address) ==
    [domain |-> Eip712Domain(chain, contract_name, contract_address),
     struct |-> Eip712StructHash(inner)]

\* The signatures AWS KMS may answer one Sign request with: KMS draws the
\* ECDSA nonce, so one key and one digest have more than one signature.
KmsAnswers == {"nonce-a", "nonce-b"}

\* Wallet::sign_typed_data when the key store answers (wallet.rs 113-127):
\* a LocalWallet computes the signature from its key and the digest; an
\* AwsSigner returns the signature KMS made for the digest.
WalletSignature(wallet, digest, answer) ==
    [key |-> wallet.key, digest |-> digest,
     nonce |-> IF wallet.kind = "Aws" THEN answer ELSE "rfc6979"]

\* Wallet::address (wallet.rs 129-134).
WalletAddress(wallet) == wallet.address

\* Variant: the entries signed so far are returned.
SignBail_Partial(signed) == Ok(signed)

\* `anyhow::bail!("Signing still fails after 10 attempts")` (main.rs 445).
SignBail(signed) == Err("Signing still fails after 10 attempts")

\* Variant: `>` for `>=`.
SigningExhausted_Past(n) == n > SIGN_MAX_ATTEMPTS

\* `if failed_attempts >= 10` (main.rs 444).
SigningExhausted(n) == n >= SIGN_MAX_ATTEMPTS

\* Variant: the signature is not attached.
SignedRewardEntry_NoSignature(entry, wallet, signature) ==
    [reward |-> entry, signatures |-> <<>>]

\* The SignedRewardEntry pushed for an entry (main.rs 458-464).
SignedRewardEntry(entry, wallet, signature) ==
    [reward |-> entry,
     signatures |-> <<[signer |-> WalletAddress(wallet), signature |-> signature]>>]

\* Address's Ord (H160, a byte array): the first byte that differs decides.
AddressCmp(a, b) ==
    IF a = b THEN "Equal"
    ELSE LET i == CHOOSE k \in 1..10 : a[k] # b[k] /\ \A j \in 1..(k - 1) : a[j] = b[j]
         IN  IF a[i] < b[i] THEN "Less" ELSE "Greater"

\* `impl Ord for RewardEntry`: `self.recipient.cmp(&other.recipient)`
\* (main.rs 221-225; partial_cmp, 215-219, is the same comparison).
RewardEntryCmp(self, other) == AddressCmp(self.recipient, other.recipient)

\* `#[derive(PartialEq, Eq)]` on RewardEntry (main.rs 172-183): every field.
RewardEntryEq(self, other) ==
    /\ self.chain_id = other.chain_id
    /\ self.period_id = other.period_id
    /\ self.recipient = other.recipient
    /\ self.staking_reward = other.staking_reward
    /\ self.fee_reward = other.fee_reward

\* `#[derive(PartialEq, Eq)]` on Signature (main.rs 201-208).
SignatureEq(self, other) ==
    /\ self.signer = other.signer
    /\ self.signature = other.signature

\* `#[derive(PartialEq, Eq)]` on SignedRewardEntry (main.rs 193-199): the
\* reward and the signature lists, element by element.
SignedRewardEntryEq(self, other) ==
    /\ RewardEntryEq(self.reward, other.reward)
    /\ Len(self.signatures) = Len(other.signatures)
    /\ \A i \in 1..Len(self.signatures) : SignatureEq(self.signatures[i], other.signatures[i])

\* The call of sign_rewards (main.rs 426): `let mut signed_entries = vec![];`
SignRewardsCall(batch, args) ==
    /\ sign_pc' = "next"
    /\ reward_entries' = batch
    /\ sign_args' = args
    /\ sign_idx' = 0
    /\ signed_entries' = <<>>
    /\ failed_attempts' = 0
    /\ attempts' = 0
    /\ elapsed' = 0
    /\ sign_result' = None

\* `for entry in reward_entries.into_iter()`: take the next entry with
\* `let mut failed_attempts = 0;`, or return Ok(signed_entries) after the last.
SignNextEntry ==
    /\ sign_pc = "next"
    /\ IF sign_idx < Len(reward_entries)
       THEN /\ sign_idx' = sign_idx + 1
            /\ failed_attempts' = 0
            /\ attempts' = 0
            /\ elapsed' = 0
            /\ sign_pc' = "call"
            /\ UNCHANGED sign_result
       ELSE /\ sign_pc' = "done"
            /\ sign_result' = Ok(signed_entries)
            /\ UNCHANGED <<sign_idx, failed_attempts, attempts, elapsed>>
    /\ UNCHANGED <<reward_entries, sign_args, signed_entries>>
    /\ UNCHANGED <<collect_vars, main_vars, worker_vars, comp_vars, pair_vars>>

\* sign_typed_data answers Ok: push the signed entry (main.rs 441, 458-464).
SignTypedDataOk ==
    /\ sign_pc = "call"
    /\ \E answer \in KmsAnswers :
          LET entry == reward_entries[sign_idx]
              signature == WalletSignature(sign_args.signer,
                               Eip712Digest(entry, sign_args.chain_id, sign_args.contract_name,
                                            sign_args.contract_address),
                               answer)
          IN  signed_entries' =
                  Append(signed_entries, SignedRewardEntry(entry, sign_args.signer, signature))
    /\ attempts' = attempts + 1
    /\ elapsed' = 0
    /\ sign_pc' = "next"
    /\ UNCHANGED <<reward_entries, sign_args, sign_idx, failed_attempts, sign_result>>
    /\ UNCHANGED <<collect_vars, main_vars, worker_vars, comp_vars, pair_vars>>

\* sign_typed_data answers Err (the key store is unreachable, times out or
\* refuses): count it, give up at the ceiling, else go to sleep (main.rs 442-454).
SignTypedDataErr ==
    /\ sign_pc = "call"
    /\ attempts' = attempts + 1
    /\ elapsed' = 0
    /\ failed_attempts' = failed_attempts + 1
    /\ IF SigningExhausted(failed_attempts')
       THEN /\ sign_pc' = "done"
            /\ sign_result' = SignBail(signed_entries)
       ELSE /\ sign_pc' = "sleep"
            /\ UNCHANGED sign_result
    /\ UNCHANGED <<reward_entries, sign_args, sign_idx, signed_entries>>
    /\ UNCHANGED <<collect_vars, main_vars, worker_vars, comp_vars, pair_vars>>

\* `tokio::time::sleep(Duration::from_secs(10)).await` (main.rs 452).
SignRetrySleep ==
    /\ sign_pc = "sleep"
    /\ elapsed' = elapsed + SIGN_RETRY_DELAY
    /\ sign_pc' = "call"
    /\ UNCHANGED <<reward_entries, sign_args, sign_idx, signed_entries,
                   failed_attempts, attempts, sign_result>>
    /\ UNCHANGED <<collect_vars, main_vars, worker_vars, comp_vars, pair_vars>>

(***************************************************************************)
(* Wallet::from_source.                                                    *)
(***************************************************************************)
\* The LocalWallet clap parses from PRIVATE_KEY (its chain id is the
\* library's default, 1, until with_chain_id), the KMS key id and region.
PrivateKey == [key |-> "private-key", address |-> SignerAddress, chain_id |-> 1]
AwsKeyId == "kms-key-id"
AwsRegion == "eu-west-1"
AwsKeyAddress == [w \in 1..10 |-> 300 + w]

WalletConfigs ==
    [private_key : {None, Some(PrivateKey)}, aws_key_id : {None, Some(AwsKeyId)},
     aws_region : {None, Some(AwsRegion)}]

\* Wallet::LocalWallet(private_key.clone()).
LocalWalletOf(private_key) ==
    [kind |-> "LocalWallet", key |-> private_key.key, address |-> private_key.address,
     chain_id |-> private_key.chain_id]

\* AwsSigner::new(kms_client, aws_key_id, chain_id) when KMS answers.
AwsSignerOf(key_id, region, chain) ==
    [kind |-> "Aws", key |-> key_id, address |-> AwsKeyAddress, chain_id |-> chain]

\* Wallet::with_chain_id (wallet.rs 143-148).
WithChainId(wallet, chain) == [wallet EXCEPT !.chain_id = chain]

\* Variant: a private key wins when both key stores are given.
WalletFromSource_LocalFirst(source, chain, kms) ==
    CASE source.private_key # None ->
            Ok(WithChainId(LocalWalletOf(source.private_key.value), chain))
      [] source.private_key = None /\ source.aws_key_id # None ->
            IF source.aws_region = None THEN Err("AWS region not provided")
            ELSE IF kms = "err" THEN Err("AwsSigner::new failed")
            ELSE Ok(AwsSignerOf(source.aws_key_id.value, source.aws_region.value, chain))
      [] OTHER -> Err("more than 1 key store provided")

\* Wallet::from_source (wallet.rs 54-80); kms is what AwsSigner::new meets.
WalletFromSource(source, chain, kms) ==
    CASE source.private_key # None /\ source.aws_key_id = None ->
            Ok(WithChainId(LocalWalletOf(source.private_key.value), chain))
      [] source.private_key = None /\ source.aws_key_id # None ->
            IF source.aws_region = None THEN Err("AWS region not provided")
            ELSE IF kms = "err" THEN Err("AwsSigner::new failed")
            ELSE Ok(AwsSignerOf(source.aws_key_id.value, source.aws_region.value, chain))
      [] OTHER -> Err("more than 1 key store provided")

(***************************************************************************)
(* RewardConfig and WorkerClient::get_reward_config_checked.               *)
(***************************************************************************)
\* A response body is a text: syntactically a JSON document (doc holds its
\* members, strings as texts) or not.
ConfigBodyA ==
    [syntax |-> "json",
     doc |-> [has_legacy_chain |-> FALSE,
              exclude_list |-> <<>>,
              staking_reward_schedule |->
                  <<[period_id |-> 136,
                     reward |-> <<"1", "0", "0", "0", "0", "0", "0", "0", "0", "0",
                                  "0", "0", "0", "0", "0", "0", "0", "0">>]>>]]

ConfigBodyB ==
    [syntax |-> "json",
     doc |-> [has_legacy_chain |-> TRUE,
              exclude_list |-> <<AddressText>>,
              staking_reward_schedule |-> <<>>]]

UnknownFieldBody ==
    [syntax |-> "json",
     doc |-> [has_legacy_chain |-> FALSE,
              exclude_list |-> <<>>,
              staking_reward_schedule |-> <<>>,
              claim_window |-> 2]]

MissingFieldBody ==
    [syntax |-> "json",
     doc |-> [has_legacy_chain |-> FALSE, exclude_list |-> <<>>]]

BadAmountBody ==
    [syntax |-> "json",
     doc |-> [has_legacy_chain |-> FALSE,
              exclude_list |-> <<>>,
              staking_reward_schedule |->
                  <<[period_id |-> 136, reward |-> <<"1", "e", "1", "7">>]>>]]

NotJsonBody == [syntax |-> "text", doc |-> [raw |-> "<html>502 Bad Gateway</html>"]]

Bodies ==
    {ConfigBodyA, ConfigBodyB, UnknownFieldBody, MissingFieldBody, BadAmountBody,
     NotJsonBody}

\* SHA-256 of a text: no two texts of the model collide.
Sha256(text) == <<"sha256", text>>
UnrelatedSum == Sha256([syntax |-> "text", doc |-> [raw |-> "some other text"]])

\* serde's Deserialize for ScheduledReward (config.rs 15-20): period_id and
\* reward, no other member; reward a decimal text (u256_dec).
ParseScheduledReward(item) ==
    IF DOMAIN item # {"period_id", "reward"} THEN Err("unknown or missing field")
    ELSE LET reward == FromDecStr(item.reward) IN
         IF reward.tag = "Err" THEN Err("invalid u256 dec string")
         ELSE Ok([period_id |-> item.period_id, reward |-> reward.value])

\* serde_json::from_str::<RewardConfig> (worker.rs 127, config.rs 5-12):
\* the three members and no other (deny_unknown_fields).
ParseRewardConfig(text) ==
    IF text.syntax # "json" THEN Err("expected value")
    ELSE IF DOMAIN text.doc # {"has_legacy_chain", "exclude_list", "staking_reward_schedule"}
    THEN Err("unknown or missing field")
    ELSE LET addrs == [i \in 1..Len(text.doc.exclude_list) |->
                          ParseAddress(text.doc.exclude_list[i])]
             sched == [i \in 1..Len(text.doc.staking_reward_schedule) |->
                          ParseScheduledReward(text.doc.staking_reward_schedule[i])]
         IN  IF \E i \in 1..Len(addrs) : addrs[i].tag = "Err" THEN Err("invalid address")
             ELSE IF \E i \in 1..Len(sched) : sched[i].tag = "Err" THEN Err("invalid schedule")
             ELSE Ok([has_legacy_chain |-> text.doc.has_legacy_chain,
                      exclude_list |-> [i \in 1..Len(addrs) |-> addrs[i].value],
                      staking_reward_schedule |-> [i \in 1..Len(sched) |-> sched[i].value]])

\* StatusCode::is_success.
IsSuccess(status) == 200 <= status /\ status <= 299

\* What the worker answers GET admin/rewardConfig with: nothing, a status
\* line whose body cannot be read, or a status line and a body.
WorkerResponses ==
    {[kind |-> "unreachable"]}
        \cup [kind : {"broken"}, status : {200, 500}]
        \cup [kind : {"response"}, status : {200, 500}, body : Bodies]

\* Variant: the response text is put into the error.
StatusError_WithBody(status, body) ==
    Err([message |-> "unsuccessful status code", status |-> status, body |-> body])

\* `anyhow::bail!("unsuccessful status code: {}", status_code)`
\* (worker.rs 90, 109, 144, 168, 190, 210, 230, 252).
StatusError(status, body) ==
    Err([message |-> "unsuccessful status code", status |-> status])

\* `response.text().await?` or `response.json().await?` on a body that
\* cannot be read.
BodyError == Err("error decoding response body")

\* Variant: the comparison is never made.
ChecksumMatches_Always(checksum, hash) == TRUE

\* Variant: the negation is dropped.
ChecksumMatches_Inverted(checksum, hash) == checksum # hash

\* `checksum.eq(hash_from_worker)` (worker.rs 119).
ChecksumMatches(checksum, hash) == checksum = hash

\* WorkerClient::get_reward_config_checked (worker.rs 96-129): the result,
\* and whether the body was handed to the JSON parser.
GetRewardConfigChecked(response, checksum) ==
    IF response.kind = "unreachable"
    THEN [result |-> Err("error sending request"), parsed |-> FALSE]
    ELSE IF response.kind = "broken"
    THEN [result |-> BodyError, parsed |-> FALSE]
    ELSE IF ~IsSuccess(response.status)
    THEN [result |-> StatusError(response.status, response.body), parsed |-> FALSE]
    ELSE IF ~ChecksumMatches(checksum, Sha256(response.body))
    THEN [result |-> Err(<<"config checksum mismatch", checksum, Sha256(response.body)>>),
          parsed |-> FALSE]
    ELSE [result |-> ParseRewardConfig(response.body), parsed |-> TRUE]

(***************************************************************************)
(* The WorkerClient operations, one HTTP exchange each.                    *)
(***************************************************************************)
\* JSON texts a worker may answer with besides the reward configs.
NumberBody == [syntax |-> "json", doc |-> [number |-> 135]]
TrueBody == [syntax |-> "json", doc |-> [bool |-> TRUE]]
NullBody == [syntax |-> "json", doc |-> [null |-> TRUE]]
WorkerConfigBody ==
    [syntax |-> "json",
     doc |-> [first_period_start_time |-> 10, period_duration |-> 2,
              signers |-> <<AddressText>>]]
RefusalBody == [syntax |-> "text", doc |-> [raw |-> "period not ready"]]

WorkerBodies ==
    {ConfigBodyA, NotJsonBody, NumberBody, TrueBody, NullBody, WorkerConfigBody,
     RefusalBody}

WorkerAnswers ==
    {[kind |-> "unreachable"]}
        \cup [kind : {"broken"}, status : {200, 500}]
        \cup [kind : {"response"}, status : {200, 500}, body : WorkerBodies]

\* struct WorkerConfig and struct Submission (worker.rs 24-39), one of each.
SampleWorkerConfig ==
    [first_period_start_time |-> 10, period_duration |-> 2,
     signers |-> <<SignerAddress>>]

SampleSubmission ==
    [period_id |-> 136, chain_id |-> 97, signer |-> SignerAddress,
     entries |-> <<[recipient |-> RunOnceRecipient, staking_reward |-> RunOnceReward,
                    fee_reward |-> RunOnceReward, signature |-> "signature"]>>,
     composition |-> [scheduled_staking_rewards |-> RunOnceReward,
                      rollover_staking_rewards |-> <<"0">>,
                      fees_accumulated |-> RunOnceReward,
                      rollover_fees |-> <<"0">>]]

\* The calls a caller can make.
WorkerCalls ==
    {[op |-> "get_worker_config", arg |-> None],
     [op |-> "set_worker_config", arg |-> [config |-> SampleWorkerConfig]],
     [op |-> "get_reward_config_checked", arg |-> [checksum |-> Sha256(ConfigBodyA)]],
     [op |-> "get_reward_config_checked", arg |-> [checksum |-> UnrelatedSum]],
     [op |-> "get_last_period_id", arg |-> None],
     [op |-> "get_signer_staged", arg |-> [period_id |-> 136, signer |-> SignerAddress]],
     [op |-> "get_stage_ready", arg |-> [period_id |-> 136]],
     [op |-> "stage", arg |-> [submission |-> SampleSubmission]],
     [op |-> "publish", arg |-> [period_id |-> 136]]}

\* The request each operation builds (worker.rs 78-82, 97-101, 132-136,
\* 151-160, 175-182, 197-202, 217-222, 237-244).
HttpRequest(call) ==
    CASE call.op = "get_worker_config" ->
            [method |-> "GET", path |-> "admin/workerConfig", query |-> None, json |-> None]
      [] call.op = "set_worker_config" ->
            [method |-> "POST", path |-> "admin/workerConfig", query |-> None,
             json |-> Some(call.arg.config)]
      [] call.op = "get_reward_config_checked" ->
            [method |-> "GET", path |-> "admin/rewardConfig", query |-> None, json |-> None]
      [] call.op = "get_last_period_id" ->
            [method |-> "GET", path |-> "lastPeriodId", query |-> None, json |-> None]
      [] call.op = "get_signer_staged" ->
            [method |-> "GET", path |-> "admin/signerStaged", query |-> Some(call.arg),
             json |-> None]
      [] call.op = "get_stage_ready" ->
            [method |-> "GET", path |-> "admin/stageReady", query |-> Some(call.arg),
             json |-> None]
      [] call.op = "stage" ->
            [method |-> "POST", path |-> "admin/stage", query |-> None,
             json |-> Some(call.arg.submission)]
      [] call.op = "publish" ->
            [method |-> "POST", path |-> "admin/publish", query |-> Some(call.arg),
             json |-> None]

\* `response.json().await?` into the type the operation returns: Option<
\* WorkerConfig> (92), u32 (146), bool (170, 192).
ParseJsonAs(op, body) ==
    IF body.syntax # "json" THEN BodyError
    ELSE CASE op = "get_worker_config" ->
                IF DOMAIN body.doc = {"null"} THEN Ok(None)
                ELSE IF {"first_period_start_time", "period_duration", "signers"}
                            \subseteq DOMAIN body.doc
                THEN LET addrs == [i \in 1..Len(body.doc.signers) |->
                                      ParseAddress(body.doc.signers[i])]
                     IN  IF \E i \in 1..Len(addrs) : addrs[i].tag = "Err" THEN BodyError
                         ELSE Ok(Some([first_period_start_time |->
                                           body.doc.first_period_start_time,
                                       period_duration |-> body.doc.period_duration,
                                       signers |-> [i \in 1..Len(addrs) |-> addrs[i].value]]))
                ELSE BodyError
           [] op = "get_last_period_id" ->
                IF DOMAIN body.doc = {"number"} THEN Ok(body.doc.number) ELSE BodyError
           [] op \in {"get_signer_staged", "get_stage_ready"} ->
                IF DOMAIN body.doc = {"bool"} THEN Ok(body.doc.bool) ELSE BodyError

\* The line `debug!("Unsuccessful repsonse text: {}", response_text)`.
DebugLine(body) == [level |-> "debug", text |-> body]

\* What an operation makes of the answer to its request: the Result it
\* returns and the lines it logs (worker.rs 77-256).
WorkerOutcome(call, response) ==
    IF response.kind = "unreachable"
    THEN [result |-> Err("error sending request"), log |-> <<>>]
    ELSE IF ~IsSuccess(response.status)
    THEN IF response.kind = "broken"
         THEN [result |-> BodyError, log |-> <<>>]
         ELSE [result |-> StatusError(response.status, response.body),
               log |-> <<DebugLine(response.body)>>]
    ELSE IF call.op \in {"set_worker_config", "stage", "publish"}
    THEN [result |-> Ok("unit"), log |-> <<>>]
    ELSE IF response.kind = "broken"
    THEN [result |-> BodyError, log |-> <<>>]
    ELSE IF call.op = "get_reward_config_checked"
    THEN [result |-> GetRewardConfigChecked(response, call.arg.checksum).result,
          log |-> <<>>]
    ELSE [result |-> ParseJsonAs(call.op, response.body), log |-> <<>>]

\* Variant: a failed exchange is tried again.
AfterWorkerResponse_RetryOnError(result) ==
    IF result.tag = "Err" THEN "send" ELSE "done"

\* Every operation returns after its one `send().await` and the reading of
\* the response; none has a loop (worker.rs 77-256).
AfterWorkerResponse(result) == "done"

\* A caller calls an operation.
WorkerCall ==
    /\ wk_pc = "idle"
    /\ \E call \in WorkerCalls : wk_call' = call
    /\ wk_pc' = "send"
    /\ wk_requests' = <<>>
    /\ wk_response' = None
    /\ wk_log' = <<>>
    /\ wk_result' = None
    /\ UNCHANGED <<collect_vars, sign_vars, main_vars, comp_vars, pair_vars>>

\* The request is sent and answered, and the operation returns.
WorkerExchange ==
    /\ wk_pc = "send"
    /\ \E response \in WorkerAnswers :
          LET outcome == WorkerOutcome(wk_call, response) IN
          /\ wk_requests' = Append(wk_requests, HttpRequest(wk_call))
          /\ wk_response' = response
          /\ wk_log' = wk_log \o outcome.log
          /\ wk_result' = outcome.result
          /\ wk_pc' = AfterWorkerResponse(outcome.result)
    /\ UNCHANGED wk_call
    /\ UNCHANGED <<collect_vars, sign_vars, main_vars, comp_vars, pair_vars>>

WorkerInit ==
    /\ CollectIdle([total |-> 0, bad_pos |-> 0, bad_kind |-> "none"])
    /\ SignIdle
    /\ MainOff
    /\ WorkerIdle
    /\ CompIdle
    /\ PairIdle

WorkerNext ==
    \/ WorkerCall
    \/ WorkerExchange

WorkerSpec == WorkerInit /\ [][WorkerNext]_vars

(***************************************************************************)
(* RewardComposition: the two sums (worker.rs 259-271).                    *)
(***************************************************************************)
\* U256::MAX = 2^256 - 1, in decimal digits.
U256_MAX ==
    <<"1", "1", "5", "7", "9", "2", "0", "8", "9", "2", "3", "7", "3", "1", "6", "1",
      "9", "5", "4", "2", "3", "5", "7", "0", "9", "8", "5", "0", "0", "8", "6", "8",
      "7", "9", "0", "7", "8", "5", "3", "2", "6", "9", "9", "8", "4", "6", "6", "5",
      "6", "4", "0", "5", "6", "4", "0", "3", "9", "4", "5", "7", "5", "8", "4", "0",
      "0", "7", "9", "1", "3", "1", "2", "9", "6", "3", "9", "9", "3", "5">>

\* Amounts a composition may hold: 0, 1, 10^17, 2^255, 2^256 - 2, 2^256 - 1.
HalfRange ==
    <<"5", "7", "8", "9", "6", "0", "4", "4", "6", "1", "8", "6", "5", "8", "0", "9",
      "7", "7", "1", "1", "7", "8", "5", "4", "9", "2", "5", "0", "4", "3", "4", "3",
      "9", "5", "3", "9", "2", "6", "6", "3", "4", "9", "9", "2", "3", "3", "2", "8",
      "2", "0", "2", "8", "2", "0", "1", "9", "7", "2", "8", "7", "9", "2", "0", "0",
      "3", "9", "5", "6", "5", "6", "4", "8", "1", "9", "9", "6", "8">>

NearMax ==
    <<"1", "1", "5", "7", "9", "2", "0", "8", "9", "2", "3", "7", "3", "1", "6", "1",
      "9", "5", "4", "2", "3", "5", "7", "0", "9", "8", "5", "0", "0", "8", "6", "8",
      "7", "9", "0", "7", "8", "5", "3", "2", "6", "9", "9", "8", "4", "6", "6", "5",
      "6", "4", "0", "5", "6", "4", "0", "3", "9", "4", "5", "7", "5", "8", "4", "0",
      "0", "7", "9", "1", "3", "1", "2", "9", "6", "3", "9", "9", "3", "4">>

U256Samples == {<<"0">>, <<"1">>, RunOnceReward, HalfRange, NearMax, U256_MAX}

\* The digit of x that stands for 10^(i-1), 0 above its first digit.
DigitAt(x, i) == IF i <= Len(x) THEN DigitValue[x[Len(x) - i + 1]] ELSE 0

\* The carry into column i of a + b: some column below produces a carry and
\* every column between passes it on.
ColumnCarry(a, b, i) ==
    IF \E j \in 1..(i - 1) :
          /\ DigitAt(a, j) + DigitAt(b, j) >= 10
          /\ \A m \in (j + 1)..(i - 1) : DigitAt(a, m) + DigitAt(b, m) = 9
    THEN 1 ELSE 0

\* The sum of two amounts, not reduced: its digits, first digit first.
AddDigits(a, b) ==
    LET n == (IF Len(a) > Len(b) THEN Len(a) ELSE Len(b)) + 1
        column == [i \in 1..n |->
                      (DigitAt(a, i) + DigitAt(b, i) + ColumnCarry(a, b, i)) % 10]
    IN  StripZeros(<<>> \o [k \in 1..n |-> Digits[column[n - k + 1] + 1]])

\* a > b, for digits without leading zeros.
Greater(a, b) ==
    \/ Len(a) > Len(b)
    \/ /\ Len(a) = Len(b)
       /\ \E i \in 1..Len(a) :
             /\ \A j \in 1..(i - 1) : a[j] = b[j]
             /\ DigitValue[a[i]] > DigitValue[b[i]]

\* Variant: saturating_add.
CheckedAdd_Saturating(a, b) ==
    LET sum == AddDigits(a, b) IN
    IF Greater(sum, U256_MAX) THEN Some(U256_MAX) ELSE Some(sum)

\* U256::checked_add: the sum, or None when it does not fit 256 bits.
CheckedAdd(a, b) ==
    LET sum == AddDigits(a, b) IN
    IF Greater(sum, U256_MAX) THEN None ELSE Some(sum)

\* Option::expect: the value, or a panic with the message.
Expect(option, message) ==
    IF option = None THEN [tag |-> "Panic", message |-> message]
    ELSE [tag |-> "Return", value |-> option.value]

\* RewardComposition::staking_reward_for_period (worker.rs 260-264).
StakingRewardForPeriod(self) ==
    Expect(CheckedAdd(self.scheduled_staking_rewards, self.rollover_staking_rewards),
           "overflow")

\* RewardComposition::fee_reward_for_period (worker.rs 266-270).
FeeRewardForPeriod(self) ==
    Expect(CheckedAdd(self.fees_accumulated, self.rollover_fees), "overflow")

RewardCompositions ==
    [scheduled_staking_rewards : U256Samples, rollover_staking_rewards : U256Samples,
     fees_accumulated : U256Samples, rollover_fees : U256Samples]

\* A method is called on a composition.
CompositionCall ==
    /\ comp_pc = "idle"
    /\ composition' \in RewardCompositions
    /\ comp_fn' \in {"staking_reward_for_period", "fee_reward_for_period"}
    /\ comp_pc' = "called"
    /\ UNCHANGED comp_outcome
    /\ UNCHANGED <<collect_vars, sign_vars, main_vars, worker_vars, pair_vars>>

\* The method runs: it returns the sum or panics.
CompositionRun ==
    /\ comp_pc = "called"
    /\ comp_outcome' = IF comp_fn = "staking_reward_for_period"
                       THEN StakingRewardForPeriod(composition)
                       ELSE FeeRewardForPeriod(composition)
    /\ comp_pc' = "done"
    /\ UNCHANGED <<composition, comp_fn>>
    /\ UNCHANGED <<collect_vars, sign_vars, main_vars, worker_vars, pair_vars>>

CompositionInit ==
    /\ CollectIdle([total |-> 0, bad_pos |-> 0, bad_kind |-> "none"])
    /\ SignIdle
    /\ MainOff
    /\ WorkerIdle
    /\ CompIdle
    /\ PairIdle

CompositionNext ==
    \/ CompositionCall
    \/ CompositionRun

CompositionSpec == CompositionInit /\ [][CompositionNext]_vars

(***************************************************************************)
(* main and run_once.                                                      *)
(***************************************************************************)
\* Bound: the iterations of main's loop that are followed.
MaxIterations == 2

ChainIds == {1, 97}

\* The command lines and the surroundings a process can start in.
Clis ==
    [wallet : WalletConfigs,
     reward_config_sha256_sum : {Sha256(b) : b \in Bodies} \cup {UnrelatedSum},
     eip_712_contract_name : {"Linear"},
     reward_system_address : {RewardSystemAddress},
     leader : BOOLEAN]

Envs ==
    [rpc : {Err("rpc error")} \cup {Ok(c) : c \in ChainIds},
     kms : {"ok", "err"},
     worker : WorkerResponses]

\* Variant: the error of a start-up step is dropped and main goes on.
AfterStartupStep_IgnoreError(result, next) == next

\* The `?` on main's start-up calls (main.rs 289, 292, 317): an error ends
\* the process.
AfterStartupStep(result, next) == IF result.tag = "Err" THEN "exit" ELSE next

MainInit ==
    /\ main_pc = "chain_id"
    /\ cli \in Clis
    /\ env \in Envs
    /\ chain_id = None
    /\ signer = None
    /\ config = None
    /\ run_context = None
    /\ config_requests = 0
    /\ config_parses = 0
    /\ iterations = 0
    /\ run_errors = 0
    /\ run_result = None
    /\ calls = <<>>
    /\ sleeps = 0

\* `rpc_provider.get_chainid().await?` (main.rs 289).
MainGetChainId ==
    /\ main_pc = "chain_id"
    /\ chain_id' = env.rpc
    /\ main_pc' = AfterStartupStep(env.rpc, "wallet")
    /\ UNCHANGED <<cli, env, signer, config, run_context, config_requests,
                   config_parses, iterations, run_errors, run_result, calls, sleeps>>
    /\ UNCHANGED <<collect_vars, sign_vars, worker_vars, comp_vars, pair_vars>>

\* `Wallet::from_source(&cli.wallet, chain_id).await?` (main.rs 292).
MainWalletFromSource ==
    /\ main_pc = "wallet"
    /\ LET result == WalletFromSource(cli.wallet, chain_id.value, env.kms) IN
          /\ signer' = result
          /\ main_pc' = AfterStartupStep(result, "config")
    /\ UNCHANGED <<cli, env, chain_id, config, run_context, config_requests,
                   config_parses, iterations, run_errors, run_result, calls, sleeps>>
    /\ UNCHANGED <<collect_vars, sign_vars, worker_vars, comp_vars, pair_vars>>

\* The RunContext main builds (main.rs 323-342).
RunContextOf(c, chain, wallet, cfg) ==
    [config |-> cfg, chain_id |-> chain, signer |-> wallet,
     eip_712_contract_name |-> c.eip_712_contract_name,
     reward_system_address |-> c.reward_system_address,
     first_period_start_time |-> 10, period_duration |-> 2,
     claim_window_period_count |-> 2, is_leader |-> c.leader]

\* `worker_client.get_reward_config_checked(&cli.reward_config_sha256_sum)
\* .await?`, then the RunContext (main.rs 315-342).
MainGetRewardConfig ==
    /\ main_pc = "config"
    /\ LET got == GetRewardConfigChecked(env.worker, cli.reward_config_sha256_sum) IN
          /\ config' = got.result
          /\ config_requests' = config_requests + 1
          /\ config_parses' = config_parses + (IF got.parsed THEN 1 ELSE 0)
          /\ main_pc' = AfterStartupStep(got.result, "loop")
          /\ run_context' =
                IF main_pc' = "loop"
                THEN RunContextOf(cli, chain_id.value, signer.value, got.result.value)
                ELSE run_context
    /\ UNCHANGED <<cli, env, chain_id, signer, iterations, run_errors, run_result, calls,
                   sleeps>>
    /\ UNCHANGED <<collect_vars, sign_vars, worker_vars, comp_vars, pair_vars>>

\* Variant: the list still holds the entry of the iteration before.
RunOnceEntries_Leftover(ctx) ==
    <<RewardEntry(ctx.chain_id, 136, RunOnceRecipient, RunOnceReward, RunOnceReward),
      RewardEntry(ctx.chain_id, 136, RunOnceRecipient, RunOnceReward, RunOnceReward)>>

\* The entries run_once builds: `let mut reward_entries = vec![];` and the
\* one push (main.rs 355-364).
RunOnceEntries(ctx) ==
    <<RewardEntry(ctx.chain_id, 136, RunOnceRecipient, RunOnceReward, RunOnceReward)>>

\* Variant: the signatures are published by whoever signed them.
RunOnceAfterSign_Publish(ctx) == <<"publish">>

\* The operations run_once calls after sign_rewards has returned Ok: it logs
\* the signatures and returns Ok(()) (main.rs 374-379).
RunOnceAfterSign(ctx) == <<>>

\* Variant: the next iteration does not wait for the one in flight.
IterationMayStart_WhileRunning(pc) == pc \in {"loop", "run_once"}

\* main calls run_once at the top of its loop, having awaited the call
\* before and slept (main.rs 344-350).
IterationMayStart(pc) == pc = "loop"

\* Variant: an error of run_once is propagated with `?`.
AfterRunOnce_ExitOnError(result) == IF result.tag = "Err" THEN "exit" ELSE "sleep"

\* `if let Err(err) = run_once(&run_context).await { error!(..) }`, then the
\* sleep, whatever the result (main.rs 345-349).
AfterRunOnce(result) == "sleep"

\* run_once up to its call of sign_rewards (main.rs 353-373).
RunOnce ==
    /\ IterationMayStart(main_pc)
    /\ iterations' = iterations + 1
    /\ main_pc' = "run_once"
    /\ calls' = <<"sign_rewards">>
    /\ SignRewardsCall(
          RunOnceEntries(run_context),
          [signer |-> run_context.signer, chain_id |-> run_context.chain_id,
           contract_name |-> run_context.eip_712_contract_name,
           contract_address |-> run_context.reward_system_address])
    /\ UNCHANGED <<cli, env, chain_id, signer, config, run_context, config_requests,
                   config_parses, run_errors, run_result, sleeps>>
    /\ UNCHANGED <<collect_vars, worker_vars, comp_vars, pair_vars>>

\* sign_rewards has returned: `?` hands its error to main, which logs it
\* (main.rs 345-347, 373-379); run_once's values are dropped.
RunOnceReturn ==
    /\ main_pc = "run_once"
    /\ sign_pc = "done"
    /\ LET result == IF sign_result.tag = "Err" THEN Err(sign_result.error)
                     ELSE Ok("unit")
       IN  /\ run_result' = result
           /\ run_errors' = run_errors + (IF result.tag = "Err" THEN 1 ELSE 0)
           /\ calls' = IF result.tag = "Ok" THEN calls \o RunOnceAfterSign(run_context)
                       ELSE calls
           /\ main_pc' = AfterRunOnce(result)
    /\ sign_pc' = "idle"
    /\ reward_entries' = <<>>
    /\ sign_args' = None
    /\ sign_idx' = 0
    /\ signed_entries' = <<>>
    /\ failed_attempts' = 0
    /\ attempts' = 0
    /\ elapsed' = 0
    /\ sign_result' = None
    /\ UNCHANGED <<cli, env, chain_id, signer, config, run_context, config_requests,
                   config_parses, iterations, sleeps>>
    /\ UNCHANGED <<collect_vars, worker_vars, comp_vars, pair_vars>>

\* `std::thread::sleep(process_interval)`, then the next iteration
\* (main.rs 344-350).
MainSleep ==
    /\ main_pc = "sleep"
    /\ iterations < MaxIterations
    /\ sleeps' = sleeps + 1
    /\ main_pc' = "loop"
    /\ UNCHANGED <<cli, env, chain_id, signer, config, run_context, config_requests,
                   config_parses, iterations, run_errors, run_result, calls>>
    /\ UNCHANGED <<collect_vars, sign_vars, worker_vars, comp_vars, pair_vars>>

Init ==
    /\ CollectIdle([total |-> 0, bad_pos |-> 0, bad_kind |-> "none"])
    /\ SignIdle
    /\ MainInit
    /\ WorkerIdle
    /\ CompIdle
    /\ PairIdle

Next ==
    \/ MainGetChainId
    \/ MainWalletFromSource
    \/ MainGetRewardConfig
    \/ RunOnce
    \/ SignNextEntry
    \/ SignTypedDataOk
    \/ SignTypedDataErr
    \/ SignRetrySleep
    \/ RunOnceReturn
    \/ MainSleep

Spec == Init /\ [][Next]_vars

\* The process keeps running: a step that can be taken is taken (every
\* await and every sleep of main returns).
LiveSpec == Spec /\ WF_vars(Next)

(***************************************************************************)
(* sign_rewards on its own, for every batch of up to MaxEntries entries.   *)
(***************************************************************************)
EntryUniverse ==
    {RewardEntry(97, 136, r, RunOnceReward, RunOnceReward) :
        r \in {RunOnceRecipient, OtherRecipient}}

RECURSIVE SeqsUpTo(_, _)
SeqsUpTo(S, n) ==
    IF n = 0 THEN {<<>>}
    ELSE SeqsUpTo(S, n - 1) \cup {Append(q, x) : q \in {p \in SeqsUpTo(S, n - 1) : Len(p) = n - 1}, x \in S}

SignArgs ==
    [signer : {WithChainId(LocalWalletOf(PrivateKey), 97), AwsSignerOf(AwsKeyId, AwsRegion, 97)},
     chain_id : {97},
     contract_name : {"Linear"},
     contract_address : {RewardSystemAddress}]

SignInit ==
    /\ CollectIdle([total |-> 0, bad_pos |-> 0, bad_kind |-> "none"])
    /\ SignIdle
    /\ MainOff
    /\ WorkerIdle
    /\ CompIdle
    /\ PairIdle

\* A caller hands sign_rewards a batch.
SignRewards ==
    /\ sign_pc = "idle"
    /\ main_pc = "off"
    /\ \E batch \in SeqsUpTo(EntryUniverse, MaxEntries), args \in SignArgs :
          SignRewardsCall(batch, args)
    /\ UNCHANGED <<collect_vars, main_vars, worker_vars, comp_vars, pair_vars>>

SignNext ==
    \/ SignRewards
    \/ SignNextEntry
    \/ SignTypedDataOk
    \/ SignTypedDataErr
    \/ SignRetrySleep

SignSpec == SignInit /\ [][SignNext]_vars


(***************************************************************************)
(* Equality and ordering of entries, and the signing of two payloads, for  *)
(* every pair of values out of small sets.                                 *)
(***************************************************************************)
PairEntries ==
    {RewardEntry(c, p, r, s, f) :
        c \in ChainIds, p \in {136, 137}, r \in {RunOnceRecipient, OtherRecipient},
        s \in {<<"0">>, RunOnceReward}, f \in {<<"0">>, RunOnceReward}}

PairWallets ==
    {WithChainId(LocalWalletOf(PrivateKey), 97), AwsSignerOf(AwsKeyId, AwsRegion, 97)}

\* Eip712RewardEntry (main.rs 389-394): the entry and the domain parameters.
Eip712RewardEntries ==
    [inner : PairEntries, chain_id : ChainIds, contract_name : {"Linear", "LinearV2"},
     contract_address : {RewardSystemAddress, OtherRecipient}]

BasePayload ==
    [inner |-> RewardEntry(97, 136, RunOnceRecipient, RunOnceReward, RunOnceReward),
     chain_id |-> 97, contract_name |-> "Linear", contract_address |-> RewardSystemAddress]

\* One pass of sign_rewards' loop whose sign_typed_data answers Ok
\* (main.rs 428-464): the payload is signed and the signed entry built.
SignOne(wallet, payload, answer) ==
    SignedRewardEntry(
        payload.inner, wallet,
        WalletSignature(wallet,
                        Eip712Digest(payload.inner, payload.chain_id, payload.contract_name,
                                     payload.contract_address),
                        answer))

\* SignedRewardEntry values: entries signed by a wallet, and one that holds
\* the signatures of two signers.
PairSignedEntries ==
    LET singles == {SignOne(w, [BasePayload EXCEPT !.inner = e], a) :
                        w \in PairWallets, a \in KmsAnswers,
                        e \in {BasePayload.inner,
                               RewardEntry(97, 136, OtherRecipient, RunOnceReward, <<"0">>)}}
    IN  singles \cup
            {[reward |-> x.reward, signatures |-> x.signatures \o y.signatures] :
                x \in {s \in singles : s.signatures[1].signer = SignerAddress},
                y \in {s \in singles : s.signatures[1].signer = AwsKeyAddress
                                          /\ s.signatures[1].signature.nonce = "nonce-a"}}

\* Two values are handed to an operation.
PairGiven ==
    /\ pair_pc = "idle"
    /\ \/ /\ pair_op' \in {"RewardEntry::cmp", "RewardEntry::eq"}
          /\ pair_left' \in PairEntries
          /\ pair_right' \in PairEntries
       \/ /\ pair_op' = "SignedRewardEntry::eq"
          /\ pair_left' \in PairSignedEntries
          /\ pair_right' \in PairSignedEntries
       \/ /\ pair_op' = "sign_rewards"
          /\ pair_left' \in [wallet : PairWallets, payload : {BasePayload}]
          /\ pair_right' \in [wallet : PairWallets, payload : Eip712RewardEntries]
    /\ pair_pc' = "called"
    /\ UNCHANGED pair_out
    /\ UNCHANGED <<collect_vars, sign_vars, main_vars, worker_vars, comp_vars>>

\* `a.cmp(&b)` on two RewardEntry values.
RewardEntryOrd ==
    /\ pair_pc = "called"
    /\ pair_op = "RewardEntry::cmp"
    /\ pair_out' = RewardEntryCmp(pair_left, pair_right)
    /\ pair_pc' = "done"
    /\ UNCHANGED <<pair_op, pair_left, pair_right>>
    /\ UNCHANGED <<collect_vars, sign_vars, main_vars, worker_vars, comp_vars>>

\* `a == b` on two RewardEntry values.
RewardEntryPartialEq ==
    /\ pair_pc = "called"
    /\ pair_op = "RewardEntry::eq"
    /\ pair_out' = RewardEntryEq(pair_left, pair_right)
    /\ pair_pc' = "done"
    /\ UNCHANGED <<pair_op, pair_left, pair_right>>
    /\ UNCHANGED <<collect_vars, sign_vars, main_vars, worker_vars, comp_vars>>

\* `a == b` on two SignedRewardEntry values.
SignedRewardEntryPartialEq ==
    /\ pair_pc = "called"
    /\ pair_op = "SignedRewardEntry::eq"
    /\ pair_out' = SignedRewardEntryEq(pair_left, pair_right)
    /\ pair_pc' = "done"
    /\ UNCHANGED <<pair_op, pair_left, pair_right>>
    /\ UNCHANGED <<collect_vars, sign_vars, main_vars, worker_vars, comp_vars>>

\* Two runs of sign_rewards, each on one entry, both answered by their key
\* store at the first attempt.
SignBoth ==
    /\ pair_pc = "called"
    /\ pair_op = "sign_rewards"
    /\ \E a, b \in KmsAnswers :
          pair_out' = <<SignOne(pair_left.wallet, pair_left.payload, a),
                        SignOne(pair_right.wallet, pair_right.payload, b)>>
    /\ pair_pc' = "done"
    /\ UNCHANGED <<pair_op, pair_left, pair_right>>
    /\ UNCHANGED <<collect_vars, sign_vars, main_vars, worker_vars, comp_vars>>

PairInit ==
    /\ CollectIdle([total |-> 0, bad_pos |-> 0, bad_kind |-> "none"])
    /\ SignIdle
    /\ MainOff
    /\ WorkerIdle
    /\ CompIdle
    /\ PairIdle

PairNext ==
    \/ PairGiven
    \/ RewardEntryOrd
    \/ RewardEntryPartialEq
    \/ SignedRewardEntryPartialEq
    \/ SignBoth

PairSpec == PairInit /\ [][PairNext]_vars

(***************************************************************************)
(* Claims about get_entries_in_batches (CollectSpec).                      *)
(***************************************************************************)
\* The typed entries of the service's whole table, in served order.
ServedEntries(svc) ==
    [i \in 1..svc.total |-> TryFromRawDebtEntry(ServiceRow(svc, i)).value]

\* No request failed and no row is malformed.
NoFailure == failures = 0 /\ service.bad_pos = 0

CeilDiv(a, b) == (a + b - 1) \div b

\* What C1 says of every state of a call nothing fails in.
C1_Returned ==
    NoFailure =>
        /\ batches <= (service.total \div QUERY_ENTRY_COUNT) + 1
        /\ gq_pc = "done" =>
              /\ gq_result = Ok(ServedEntries(service))
              /\ batch_size < QUERY_ENTRY_COUNT
              /\ Len(entries) = (batches - 1) * QUERY_ENTRY_COUNT + batch_size
        /\ (gq_pc = "loop" /\ batches > 0) => batch_size = QUERY_ENTRY_COUNT

\* Steps left to a call nothing fails in: three per page still to receive
\* (build the request, send it, take the answer), less those already taken.
C1_StepsLeft ==
    3 * ((service.total \div QUERY_ENTRY_COUNT) + 1 - batches)
        + (CASE gq_pc = "idle" -> 2 [] gq_pc = "loop" -> 1 [] OTHER -> 0)

\* Every step of a call nothing fails in uses up steps left, and none is
\* taken once it has returned.
C1_Progress ==
    NoFailure' => (C1_StepsLeft' < C1_StepsLeft /\ C1_StepsLeft' >= 0 /\ gq_pc # "done")

\* C1: against a service of N well-formed rows that never fails a request,
\* get_entries_in_batches terminates (every step brings it nearer to its
\* return) and returns exactly the N entries in served order; the page it
\* stops at is the first one shorter than P (every page before it is full).
C1_PaginationReturnsAll ==
    /\ []C1_Returned
    /\ [][C1_Progress]_vars

\* C1 witness: two full pages and the empty page after them, no failure.
C1_Witness ==
    /\ gq_pc = "done"
    /\ NoFailure
    /\ service.total = 2 * QUERY_ENTRY_COUNT
    /\ gq_result.tag = "Ok"
    /\ Len(gq_result.value) = 2 * QUERY_ENTRY_COUNT
    /\ batch_size = 0

\* C2 as stated: with no failed request, the requests sent are ceil(N/P).
C2_RequestsAreCeil ==
    (gq_pc = "done" /\ NoFailure) =>
        requests = CeilDiv(service.total, QUERY_ENTRY_COUNT)

\* C2 amended: with no failed request, the requests sent are
\* floor(N/P) + 1: ceil(N/P) when P does not divide N, one more when it does
\* (N = 0 included), because only a page shorter than P ends the loop.
C2_RequestsAreFloorPlusOne ==
    (gq_pc = "done" /\ NoFailure) =>
        /\ requests = (service.total \div QUERY_ENTRY_COUNT) + 1
        /\ (service.total % QUERY_ENTRY_COUNT # 0
               => requests = CeilDiv(service.total, QUERY_ENTRY_COUNT))
        /\ (service.total % QUERY_ENTRY_COUNT = 0
               => requests = CeilDiv(service.total, QUERY_ENTRY_COUNT) + 1)

\* C2 witness: N = P exactly, collected with two requests.
C2_Witness ==
    /\ gq_pc = "done"
    /\ NoFailure
    /\ service.total = QUERY_ENTRY_COUNT
    /\ requests = 2
    /\ gq_result.tag = "Ok"

\* C3: a page is given up, and the call returns the retry error, exactly when
\* GRAPHQL_RETRY_COUNT + 1 attempts of it failed in a row; a page that answers
\* after up to GRAPHQL_RETRY_COUNT failed attempts is appended and the
\* collection goes on.
C3_QueryRetryCeiling ==
    /\ ind_retry <= GRAPHQL_RETRY_COUNT + 1
    /\ (ind_retry = GRAPHQL_RETRY_COUNT + 1) <=> (gq_pc = "done" /\ gq_result = RetryError)
    /\ (gq_pc = "loop" /\ batches > 0) =>
          /\ ind_retry <= GRAPHQL_RETRY_COUNT
          /\ gq_result = None
          /\ Len(entries) = batches * QUERY_ENTRY_COUNT
    /\ (gq_pc = "done" /\ gq_result.tag = "Ok") => ind_retry <= GRAPHQL_RETRY_COUNT

\* C3 witness: the first page answered at the sixth attempt, after exactly
\* GRAPHQL_RETRY_COUNT failures, and its rows were appended.
C3_Witness ==
    /\ gq_pc = "loop"
    /\ batches = 1
    /\ ind_retry = GRAPHQL_RETRY_COUNT
    /\ failures = GRAPHQL_RETRY_COUNT
    /\ Len(entries) = QUERY_ENTRY_COUNT

\* The page (1-based) that holds row pos.
PageOf(pos) == ((pos - 1) \div QUERY_ENTRY_COUNT) + 1

\* C10: as soon as a page holds a row that fails conversion, or a page
\* failed GRAPHQL_RETRY_COUNT + 1 times, the call has returned an error; an
\* error return carries no entries, and no request follows the failing one.
C10_AllOrNothing ==
    /\ (service.bad_pos # 0 /\ batches >= PageOf(service.bad_pos)) =>
          /\ gq_pc = "done"
          /\ gq_result.tag = "Err"
          /\ batches = PageOf(service.bad_pos)
    /\ ind_retry > GRAPHQL_RETRY_COUNT => (gq_pc = "done" /\ gq_result.tag = "Err")
    /\ gq_result.tag = "Err" =>
          /\ gq_pc = "done"
          /\ DOMAIN gq_result = {"tag", "error"}
          /\ requests = batches + failures
    /\ gq_result.tag = "Ok" =>
          /\ service.bad_pos = 0
          /\ ind_retry <= GRAPHQL_RETRY_COUNT

\* C10 witness: a malformed row on the second page fails the call after the
\* first page's entries had been accumulated.
C10_Witness ==
    /\ gq_pc = "done"
    /\ gq_result.tag = "Err"
    /\ service.bad_pos > QUERY_ENTRY_COUNT
    /\ batches = 2
    /\ Len(entries) = QUERY_ENTRY_COUNT

\* What a page request carries when it is about to be sent.
C11_Carried ==
    gq_pc = "request" =>
        /\ query.block = AnchorBlock
        /\ query.first = QUERY_ENTRY_COUNT
        /\ query.skip = Len(entries)
        /\ query.skip = batches * QUERY_ENTRY_COUNT
        /\ batches = 0 => query.skip = 0

\* A failed attempt that is retried sends the same request again.
C11_RetrySame == (gq_pc = "request" /\ gq_pc' = "request") => query' = query

\* The request built after a page was appended asks for the page after it.
C11_NextPage ==
    (gq_pc = "loop" /\ gq_pc' = "request" /\ batches > 0) =>
        query'.skip = query.skip + QUERY_ENTRY_COUNT

\* C11: every page request carries block = anchor_block, first =
\* QUERY_ENTRY_COUNT and skip = the number of entries accumulated so far;
\* skip is 0 on the first page, the same on every retry of a page, and larger
\* by exactly the page size on the page after.
C11_PageRequestVariables ==
    /\ []C11_Carried
    /\ [][C11_RetrySame]_vars
    /\ [][C11_NextPage]_vars

\* The second page is being retried after a failure.
C11_Witness ==
    /\ gq_pc = "request"
    /\ batches = 1
    /\ ind_retry >= 1
    /\ query.skip = QUERY_ENTRY_COUNT

(***************************************************************************)
(* Claims about sign_rewards (checked under SignSpec).                     *)
(***************************************************************************)
SignFailed == sign_pc = "done" /\ sign_result.tag = "Err"
SignSucceeded == sign_pc = "done" /\ sign_result.tag = "Ok"

\* The entry taken last has been signed.
EntrySigned == sign_idx > 0 /\ Len(signed_entries) = sign_idx

\* C4 as stated: a signing that has failed 10 times for an entry can still
\* succeed, and sign_rewards returns an error only on the 11th failure.
C4_CeilingAsStated ==
    /\ failed_attempts = SIGN_MAX_ATTEMPTS => ~SignFailed
    /\ SignFailed => failed_attempts = SIGN_MAX_ATTEMPTS + 1

\* C4 (amended): a signing that fails up to 9 times for an entry and then
\* succeeds gets the entry signed, and the batch succeeds when this holds of
\* every entry; on the 10th failure for one entry sign_rewards returns an
\* error, so no entry ever sees an 11th attempt.
C4_SignRetryCeiling ==
    /\ failed_attempts <= SIGN_MAX_ATTEMPTS
    /\ failed_attempts = SIGN_MAX_ATTEMPTS <=> SignFailed
    /\ (sign_pc = "next" /\ sign_idx > 0) =>
          (EntrySigned /\ failed_attempts <= SIGN_MAX_ATTEMPTS - 1)
    /\ SignSucceeded =>
          (/\ Len(sign_result.value) = Len(reward_entries)
           /\ \A i \in 1..Len(reward_entries) :
                 sign_result.value[i].reward = reward_entries[i])

\* An entry signed on the 10th attempt, after 9 failures, in a batch that
\* succeeded.
C4_Witness ==
    /\ SignSucceeded
    /\ Len(reward_entries) >= 1
    /\ failed_attempts = SIGN_MAX_ATTEMPTS - 1
    /\ attempts = SIGN_MAX_ATTEMPTS

\* C5: sign_typed_data is attempted at most 10 times for one entry, every
\* retry comes exactly 10 seconds after the failure before it, and once an
\* entry has used up its attempts sign_rewards returns the error and none of
\* the entries signed before; a batch that succeeds has every entry signed.
C5_NoPartialSignatures ==
    /\ attempts <= SIGN_MAX_ATTEMPTS
    /\ (sign_pc = "call" /\ attempts > 0) => elapsed = SIGN_RETRY_DELAY
    /\ (sign_pc = "call" /\ attempts = 0) => elapsed = 0
    /\ (attempts = SIGN_MAX_ATTEMPTS /\ ~EntrySigned) =>
          (/\ sign_pc = "done"
           /\ sign_result = Err("Signing still fails after 10 attempts"))
    /\ SignFailed => DOMAIN sign_result = {"tag", "error"}
    /\ SignSucceeded => Len(sign_result.value) = Len(reward_entries)

\* The second entry of a batch ran out of attempts after the first was signed.
C5_Witness ==
    /\ SignFailed
    /\ Len(signed_entries) >= 1
    /\ sign_idx = Len(signed_entries) + 1
    /\ attempts = SIGN_MAX_ATTEMPTS

(***************************************************************************)
(* Claims about start-up (checked under Spec).                             *)
(***************************************************************************)
\* The worker answered the one GET with a success status.
ConfigAnswered ==
    /\ config_requests = 1
    /\ env.worker.kind = "response"
    /\ env.worker.status = 200

\* The RewardConfig values the texts ConfigBodyA and ConfigBodyB spell.
ConfigA ==
    [has_legacy_chain |-> FALSE,
     exclude_list |-> <<>>,
     staking_reward_schedule |-> <<[period_id |-> 136, reward |-> RunOnceReward]>>]

ConfigB ==
    [has_legacy_chain |-> TRUE,
     exclude_list |-> <<RunOnceRecipient>>,
     staking_reward_schedule |-> <<>>]

\* C6: whenever the checksum given differs from the SHA-256 of the body,
\* whatever the body, get_reward_config_checked returns an error, the body is
\* not handed to the parser and no RewardConfig comes back.
C6_ChecksumMismatchFails ==
    (ConfigAnswered /\ cli.reward_config_sha256_sum # Sha256(env.worker.body)) =>
        (/\ config.tag = "Err"
         /\ config_parses = 0
         /\ run_context = None
         /\ main_pc = "exit")

\* A well-formed RewardConfig body was refused for its checksum.
C6_Witness ==
    /\ ConfigAnswered
    /\ env.worker.body = ConfigBodyA
    /\ cli.reward_config_sha256_sum = Sha256(ConfigBodyB)
    /\ config.tag = "Err"

\* C7 as stated: with a checksum equal to the SHA-256 of the body, the call
\* parses successfully and returns a RewardConfig.
C7_MatchingAlwaysParses ==
    (ConfigAnswered /\ cli.reward_config_sha256_sum = Sha256(env.worker.body)) =>
        config.tag = "Ok"

\* C7 (amended): with a checksum equal to the SHA-256 of the body, the body
\* is handed to the parser; the call returns the RewardConfig the body spells
\* when it is a JSON object of exactly the members has_legacy_chain,
\* exclude_list and staking_reward_schedule with well-formed values, and the
\* parser's error for any other body.
C7_MatchingChecksumParses ==
    (ConfigAnswered /\ cli.reward_config_sha256_sum = Sha256(env.worker.body)) =>
        (/\ config_parses = 1
         /\ env.worker.body = ConfigBodyA => config = Ok(ConfigA)
         /\ env.worker.body = ConfigBodyB => config = Ok(ConfigB)
         /\ env.worker.body \notin {ConfigBodyA, ConfigBodyB} => config.tag = "Err")

\* The body with an excluded address came back as its RewardConfig.
C7_Witness ==
    /\ ConfigAnswered
    /\ cli.reward_config_sha256_sum = Sha256(ConfigBodyB)
    /\ config = Ok(ConfigB)
    /\ run_context # None

StartupFailed == chain_id.tag = "Err" \/ signer.tag = "Err" \/ config.tag = "Err"

\* C8: run_once runs, and an entry is signed, only after get_chainid,
\* Wallet::from_source and get_reward_config_checked have all returned Ok;
\* the config is requested at most once in a process and exactly once before
\* the loop; a failed step, a checksum mismatch included, ends the process
\* with no run_once and no second request.
C8_StartupGate ==
    /\ config_requests <= 1
    /\ (main_pc \in {"loop", "run_once", "sleep"} \/ iterations > 0 \/ sign_pc # "idle") =>
          (/\ chain_id.tag = "Ok"
           /\ signer.tag = "Ok"
           /\ config.tag = "Ok"
           /\ config_requests = 1
           /\ run_context # None)
    /\ StartupFailed =>
          (/\ main_pc = "exit"
           /\ iterations = 0
           /\ sign_pc = "idle"
           /\ signed_entries = <<>>)
    /\ main_pc = "exit" => StartupFailed

\* The second run_once of a process has signed its entry.
C8_Witness ==
    /\ main_pc = "run_once"
    /\ iterations = 2
    /\ Len(signed_entries) = 1
    /\ config_requests = 1

\* from_source has returned.
WalletBuilt == signer # None

\* C9: from_source returns an error when neither or both of private_key and
\* aws_key_id are set; with private_key alone the LocalWallet of that key
\* bound to the chain id; with aws_key_id alone an error when aws_region is
\* missing and otherwise the Aws signer of that key for the chain id, unless
\* AwsSigner::new itself fails.
C9_ExactlyOneBackend ==
    WalletBuilt =>
        LET source == cli.wallet IN
        /\ (source.private_key = None /\ source.aws_key_id = None) => signer.tag = "Err"
        /\ (source.private_key # None /\ source.aws_key_id # None) => signer.tag = "Err"
        /\ (source.private_key # None /\ source.aws_key_id = None) =>
              signer = Ok([kind |-> "LocalWallet", key |-> "private-key",
                           address |-> SignerAddress, chain_id |-> chain_id.value])
        /\ (source.private_key = None /\ source.aws_key_id # None) =>
              /\ source.aws_region = None => signer.tag = "Err"
              /\ (source.aws_region # None /\ env.kms = "ok") =>
                    signer = Ok([kind |-> "Aws", key |-> AwsKeyId,
                                 address |-> AwsKeyAddress, chain_id |-> chain_id.value])
              /\ signer.tag = "Ok" => signer.value.kind = "Aws"

\* Both key stores were configured and from_source refused.
C9_Witness ==
    /\ WalletBuilt
    /\ cli.wallet.private_key # None
    /\ cli.wallet.aws_key_id # None
    /\ signer.tag = "Err"
    /\ main_pc = "exit"

(***************************************************************************)
(* Claims about the WorkerClient operations (checked under WorkerSpec).    *)
(***************************************************************************)
\* The call returned on a non-success status whose body was read.
StatusRefused ==
    /\ wk_pc = "done"
    /\ wk_response.kind = "response"
    /\ ~(200 <= wk_response.status /\ wk_response.status <= 299)

C13_OneRequestPerCall ==
    /\ Len(wk_requests) <= 1
    /\ wk_pc = "send" => Len(wk_requests) = 0
    /\ wk_pc = "done" =>
          /\ Len(wk_requests) = 1
          /\ wk_call.op = "stage" =>
                (wk_requests[1].method = "POST" /\ wk_requests[1].path = "admin/stage")
          /\ wk_call.op = "publish" =>
                (wk_requests[1].method = "POST" /\ wk_requests[1].path = "admin/publish")

\* publish met a transport error and returned after its one request.
C13_Witness ==
    /\ wk_pc = "done"
    /\ wk_call.op = "publish"
    /\ wk_response.kind = "unreachable"
    /\ wk_result.tag = "Err"
    /\ Len(wk_requests) = 1

(***************************************************************************)
(* Claims about the run loop (checked under Spec and LiveSpec).            *)
(***************************************************************************)
InLoop == main_pc \in {"loop", "run_once", "sleep"}

\* The last run_once has returned Ok and main is about to sleep.
IterationSucceeded == main_pc = "sleep" /\ run_result.tag = "Ok"

PipelineOf(leader) ==
    <<"resolve_period", "collect", "compute", "sign_rewards", "stage">>
        \o (IF leader THEN <<"publish">> ELSE <<>>)

\* C14: an iteration that completes successfully has gone, in this order,
\* through resolve-period, collect, compute, sign and stage, and then
\* publish exactly when the node is leader.
C14_PipelineOrder ==
    IterationSucceeded => calls = PipelineOf(run_context.is_leader)

C16_ReturnSleeps == (main_pc = "run_once" /\ main_pc' # "run_once") => main_pc' = "sleep"

\* Nothing leaves the loop.
C16_StaysInLoop == InLoop => InLoop'

\* The sleep is followed by the top of the loop.
C16_SleepRestarts == (main_pc = "sleep" /\ main_pc' # "sleep") => main_pc' = "loop"

\* C16: once in the loop the process never leaves it on an error of
\* run_once: every iteration, failed or not, is followed by the sleep and
\* the sleep by the top of the loop, so that a failed iteration k is always
\* eventually followed by iteration k + 1.
C16_LoopSurvivesErrors ==
    /\ [][C16_ReturnSleeps]_vars
    /\ [][C16_StaysInLoop]_vars
    /\ [][C16_SleepRestarts]_vars
    /\ \A k \in 1..(MaxIterations - 1) :
          (main_pc = "sleep" /\ run_result.tag = "Err" /\ iterations = k)
              ~> (main_pc = "run_once" /\ iterations = k + 1)

\* The second iteration is running after the first one failed.
C16_Witness ==
    /\ main_pc = "run_once"
    /\ iterations = 2
    /\ run_errors = 1
    /\ run_result.tag = "Err"

\* Iterations started and sleeps returned go in step, and sign_rewards runs
\* only inside the iteration in flight.
C17_InStep ==
    /\ main_pc = "loop" => iterations = sleeps
    /\ main_pc \in {"run_once", "sleep"} => iterations = sleeps + 1
    /\ sign_pc # "idle" => main_pc = "run_once"

\* An iteration starts only when none is in flight.
C17_StartsAlone ==
    iterations' # iterations =>
        /\ iterations' = iterations + 1
        /\ main_pc = "loop"
        /\ sign_pc = "idle"
        /\ iterations > 0 => (run_result # None /\ sleeps = iterations)

\* C17: at most one run_once is in flight: iteration k + 1 starts only after
\* iteration k has returned and the sleep after it has elapsed, also while
\* iteration k waits in a signing retry delay.
C17_OneIterationInFlight ==
    /\ []C17_InStep
    /\ [][C17_StartsAlone]_vars

\* The second iteration is waiting in a signing retry delay.
C17_Witness ==
    /\ main_pc = "run_once"
    /\ sign_pc = "sleep"
    /\ iterations = 2
    /\ sleeps = 1

\* The RunContext is not written after it was built.
C18_ContextKept == run_context # None => run_context' = run_context

\* Every iteration starts sign_rewards from the same state.
C18_FreshStart ==
    iterations' # iterations =>
        /\ reward_entries' =
              <<[chain_id |-> run_context.chain_id, period_id |-> 136,
                 recipient |-> RunOnceRecipient, staking_reward |-> RunOnceReward,
                 fee_reward |-> RunOnceReward]>>
        /\ signed_entries' = <<>>
        /\ sign_idx' = 0
        /\ failed_attempts' = 0
        /\ attempts' = 0
        /\ sign_result' = None
        /\ calls' = <<"sign_rewards">>

\* Between iterations no entry and no signature is held.
C18_NothingHeld ==
    main_pc \in {"sleep", "loop"} =>
        /\ reward_entries = <<>>
        /\ signed_entries = <<>>
        /\ sign_result = None

\* C18: run_once leaves the RunContext unchanged, and no entry or signature
\* of one iteration is seen by the next: every iteration starts from an
\* empty list to which the one entry is pushed, whether the iteration before
\* succeeded or failed.
C18_IterationsIndependent ==
    /\ [][C18_ContextKept]_vars
    /\ [][C18_FreshStart]_vars
    /\ []C18_NothingHeld

\* The second iteration has started after a first one that had signed its
\* entry.
C18_Witness ==
    /\ main_pc = "run_once"
    /\ iterations = 2
    /\ run_result.tag = "Ok"
    /\ sign_pc = "next"
    /\ sign_idx = 0
    /\ signed_entries = <<>>

(***************************************************************************)
(* Claims about RewardComposition (checked under CompositionSpec).         *)
(***************************************************************************)
\* The two amounts the method called adds.
LeftAmount ==
    IF comp_fn = "staking_reward_for_period" THEN composition.scheduled_staking_rewards
    ELSE composition.fees_accumulated

RightAmount ==
    IF comp_fn = "staking_reward_for_period" THEN composition.rollover_staking_rewards
    ELSE composition.rollover_fees

\* The k-th group of eight digits of x, counted from the right, as a number.
GroupAt(x, k) ==
    LET d(j) == DigitAt(x, 8 * (k - 1) + j) IN
    d(1) + 10 * d(2) + 100 * d(3) + 1000 * d(4) + 10000 * d(5) + 100000 * d(6)
        + 1000000 * d(7) + 10000000 * d(8)

RECURSIVE CarryInto(_, _, _)
\* The carry into group k of the written addition of a and b.
CarryInto(a, b, k) ==
    IF k = 1 THEN 0
    ELSE (GroupAt(a, k - 1) + GroupAt(b, k - 1) + CarryInto(a, b, k - 1)) \div 100000000

\* s is a + b: every group of s is the sum of the groups with its carry, and
\* s has no leading zero.
IsSumOf(s, a, b) ==
    /\ \A k \in 1..11 :
          GroupAt(s, k) =
              (GroupAt(a, k) + GroupAt(b, k) + CarryInto(a, b, k)) % 100000000
    /\ Len(s) <= 88
    /\ Len(s) > 1 => s[1] # "0"

\* s < 2^256: fewer digits than 2^256 - 1, or as many and no larger.
Below2Pow256(s) ==
    \/ Len(s) < Len(U256_MAX)
    \/ /\ Len(s) = Len(U256_MAX)
       /\ \/ s = U256_MAX
          \/ \E i \in 1..Len(s) :
                /\ \A j \in 1..(i - 1) : s[j] = U256_MAX[j]
                /\ DigitValue[s[i]] < DigitValue[U256_MAX[i]]

\* C19: each method returns exactly the sum of its two amounts whenever the
\* sum is below 2^256, and a value it returns is never anything but that
\* sum: not a wrapped, a saturated or a truncated one.
C19_ExactSums ==
    comp_pc = "done" =>
        LET sum == AddDigits(LeftAmount, RightAmount) IN
        /\ IsSumOf(sum, LeftAmount, RightAmount)
        /\ Below2Pow256(sum) => comp_outcome = [tag |-> "Return", value |-> sum]
        /\ comp_outcome.tag = "Return" =>
              /\ IsSumOf(comp_outcome.value, LeftAmount, RightAmount)
              /\ Below2Pow256(comp_outcome.value)
        /\ (LeftAmount = RunOnceReward /\ RightAmount = RunOnceReward) =>
              comp_outcome.value =
                  <<"2", "0", "0", "0", "0", "0", "0", "0", "0", "0", "0", "0", "0",
                    "0", "0", "0", "0", "0">>
        /\ (LeftAmount = NearMax /\ RightAmount = <<"1">>) =>
              comp_outcome.value = U256_MAX
        /\ (LeftAmount = HalfRange /\ RightAmount = HalfRange) =>
              comp_outcome.tag # "Return"

\* The largest sum that fits: (2^256 - 2) + 1.
C19_Witness ==
    /\ comp_pc = "done"
    /\ comp_fn = "fee_reward_for_period"
    /\ composition.fees_accumulated = NearMax
    /\ composition.rollover_fees = <<"1">>
    /\ comp_outcome = [tag |-> "Return", value |-> U256_MAX]

\* C20: a sum of 2^256 or more is reported as an error to the caller (which
\* aborts the iteration and is logged by the run loop); the method does not
\* panic.
C20_OverflowIsAnError ==
    (comp_pc = "done" /\ ~Below2Pow256(AddDigits(LeftAmount, RightAmount))) =>
        comp_outcome.tag = "Err"

(***************************************************************************)
(* Claims about the entries an iteration produces (checked under Spec).    *)
(***************************************************************************)
\* run_once is past building its entries and has not returned.
IterationInFlight == main_pc = "run_once"

\* U256 zero.
Zero == FromDecStr(<<"0">>).value

\* C21: with period parameters 10 s, 2 s and a claim window of 2, a schedule
\* of 100000000000000000 for period 136, no exclusion and an address A that
\* holds all the debt, the iteration produces exactly one RewardEntry: for
\* A and period 136, with staking_reward 100000000000000000 and fee_reward 0.
\* (A is taken to be the address run_once writes.)
C21_EndToEndScenario ==
    (/\ IterationInFlight
     /\ run_context.first_period_start_time = 10
     /\ run_context.period_duration = 2
     /\ run_context.claim_window_period_count = 2
     /\ run_context.config = ConfigA) =>
        /\ Len(reward_entries) = 1
        /\ reward_entries[1].period_id = 136
        /\ reward_entries[1].recipient = RunOnceRecipient
        /\ reward_entries[1].staking_reward = RunOnceReward
        /\ reward_entries[1].fee_reward = Zero

\* The addresses the reward config of the process excludes.
Excluded ==
    {run_context.config.exclude_list[j] : j \in 1..Len(run_context.config.exclude_list)}

\* C22: whatever the reward config, no RewardEntry an iteration produces,
\* signs or stages has a recipient that is in the config's exclude_list.
C22_ExcludedNeverProduced ==
    IterationInFlight =>
        /\ \A i \in 1..Len(reward_entries) : reward_entries[i].recipient \notin Excluded
        /\ \A i \in 1..Len(signed_entries) :
              signed_entries[i].reward.recipient \notin Excluded

RECURSIVE TotalOf(_, _)
\* The sum of the first n amounts.
TotalOf(amounts, n) ==
    IF n = 0 THEN Zero ELSE AddDigits(TotalOf(amounts, n - 1), amounts[n])

StakingTotal ==
    TotalOf([i \in 1..Len(reward_entries) |-> reward_entries[i].staking_reward],
            Len(reward_entries))

FeeTotal ==
    TotalOf([i \in 1..Len(reward_entries) |-> reward_entries[i].fee_reward],
            Len(reward_entries))

\* C23: in every iteration the entries produced are the split of a
\* RewardComposition: their staking_reward values add up to its
\* staking_reward_for_period() and their fee_reward values to its
\* fee_reward_for_period(), nothing created and nothing dropped.
C23_Conservation ==
    IterationInFlight =>
        /\ composition # None
        /\ StakingRewardForPeriod(composition) = [tag |-> "Return", value |-> StakingTotal]
        /\ FeeRewardForPeriod(composition) = [tag |-> "Return", value |-> FeeTotal]

(***************************************************************************)
(* The retry budget of the collector (checked under CollectSpec).          *)
(***************************************************************************)
\* Every page starts with a failure counter of 0.
C27_PageStartsFresh == (gq_pc = "loop" /\ gq_pc' = "request") => ind_retry' = 0

\* On a page, each failed attempt counts once and an answer leaves the
\* counter alone.
C27_CountsThisPage ==
    /\ failures' = failures + 1 => ind_retry' = ind_retry + 1
    /\ batches' = batches + 1 => ind_retry' = ind_retry

C27_Budget ==
    /\ gq_result = RetryError => ind_retry = GRAPHQL_RETRY_COUNT + 1
    /\ failures - ind_retry <= batches * GRAPHQL_RETRY_COUNT
    /\ (gq_pc = "done" /\ gq_result.tag = "Ok") =>
          failures <= batches * GRAPHQL_RETRY_COUNT

\* C27: the failure counter is 0 at the start of every page and counts the
\* failures of that page only, so the failures of earlier pages take
\* nothing from a later page: the call gives up only when one page has
\* failed GRAPHQL_RETRY_COUNT + 1 times in a row, and a query whose pages
\* each fail at most GRAPHQL_RETRY_COUNT times succeeds, with up to
\* GRAPHQL_RETRY_COUNT failures per page in total.
C27_RetryBudgetPerPage ==
    /\ []C27_Budget
    /\ [][C27_PageStartsFresh]_vars
    /\ [][C27_CountsThisPage]_vars

\* A query of two or more pages has succeeded although every page failed
\* GRAPHQL_RETRY_COUNT times before it answered.
C27_Witness ==
    /\ gq_pc = "done"
    /\ gq_result.tag = "Ok"
    /\ batches >= 2
    /\ failures = batches * GRAPHQL_RETRY_COUNT

(***************************************************************************)
(* Claims about what sign_rewards returns (checked under SignSpec).        *)
(***************************************************************************)
\* C24: the signed entries sign_rewards returns are in ascending order of
\* recipient address whatever the order of its input, so that one set of
\* entries handed over in two orders comes back as one sequence.
C24_SignedAscending ==
    sign_result.tag = "Ok" =>
        \A i, j \in 1..Len(sign_result.value) :
            i < j =>
                RewardEntryCmp(sign_result.value[i].reward, sign_result.value[j].reward)
                    # "Greater"

(***************************************************************************)
(* Claims about typed data, equality and ordering (checked under PairSpec).*)
(***************************************************************************)
\* Both runs of sign_rewards have returned.
BothSigned == pair_pc = "done" /\ pair_op = "sign_rewards"

\* The two payloads agree on each value the claim lists (the version is
\* the literal "1" in both).
SameTypedData ==
    /\ pair_left.payload.contract_name = pair_right.payload.contract_name
    /\ pair_left.payload.chain_id = pair_right.payload.chain_id
    /\ pair_left.payload.contract_address = pair_right.payload.contract_address
    /\ pair_left.payload.inner.period_id = pair_right.payload.inner.period_id
    /\ pair_left.payload.inner.recipient = pair_right.payload.inner.recipient
    /\ pair_left.payload.inner.staking_reward = pair_right.payload.inner.staking_reward
    /\ pair_left.payload.inner.fee_reward = pair_right.payload.inner.fee_reward

\* The digest the signer of the i-th run was handed.
DigestSigned(i) == pair_out[i].signatures[1].signature.digest

\* The digests of the two runs are the same exactly when the payloads agree
\* on the listed values, and the version signed is "1".
C25_DigestOfListedValues ==
    /\ DigestSigned(1).domain.version = "1"
    /\ DigestSigned(2).domain.version = "1"
    /\ (DigestSigned(1) = DigestSigned(2)) <=> SameTypedData

Applied(op) == pair_pc = "done" /\ pair_op = op

\* C26: two SignedRewardEntry values are equal exactly when their
\* underlying RewardEntry values are, whatever their signature lists hold
\* (and they are ordered as their RewardEntry values are).
C26_EqualityInherited ==
    Applied("SignedRewardEntry::eq") =>
        (pair_out <=> RewardEntryEq(pair_left.reward, pair_right.reward))

\* C29: for all RewardEntry values a and b, cmp(a, b) is Equal if and only
\* if a == b.
C29_OrderConsistentWithEq ==
    /\ Applied("RewardEntry::cmp") =>
          ((pair_out = "Equal") <=> RewardEntryEq(pair_left, pair_right))
    /\ Applied("RewardEntry::eq") =>
          (pair_out <=> (RewardEntryCmp(pair_left, pair_right) = "Equal"))

\* What sign_rewards returns on success: one signed entry per entry, in the
\* order given, the reward untouched, with one signature by the wallet.
C28_OnePerEntry ==
    sign_result.tag = "Ok" =>
        /\ Len(sign_result.value) = Len(reward_entries)
        /\ \A i \in 1..Len(sign_result.value) :
              /\ sign_result.value[i].reward = reward_entries[i]
              /\ Len(sign_result.value[i].signatures) = 1
              /\ sign_result.value[i].signatures[1].signer = WalletAddress(sign_args.signer)

\* The failure counter starts at 0 with every entry.
C28_CounterReset == sign_idx' = sign_idx + 1 => failed_attempts' = 0

\* C28: a successful sign_rewards returns exactly one SignedRewardEntry per
\* RewardEntry given, in the order given, with the reward fields unchanged
\* and exactly one signature, whose signer is the wallet's address (so
\* signatures[0] exists); the failure counter is reset for each entry.
C28_SignedPerEntry ==
    /\ []C28_OnePerEntry
    /\ [][C28_CounterReset]_vars

\* Two different entries have been signed and returned.
C28_Witness ==
    /\ sign_result.tag = "Ok"
    /\ Len(sign_result.value) = 2
    /\ sign_result.value[1].reward # sign_result.value[2].reward
    /\ sign_result.value[2].signatures[1].signer = AwsKeyAddress

====
